---------------------------- MODULE Spec2Model ----------------------------
(***************************************************************************)
(* A model of novel_analyzer.py (class NovelAnalyzer): the chapter         *)
(* splitter, the model-API call with its retry loop, the character merge   *)
(* and the process_novel pipeline that strings them together.              *)
(*                                                                         *)
(* Text is a sequence of characters.  The heading pattern only tells six   *)
(* classes of characters apart, so the alphabet has one character of each: *)
(*   Di  the character U+7B2C that opens a heading                         *)
(*   Num a chapter-number character (0-9 or a CJK numeral)                 *)
(*   Zh  the character U+7AE0 that closes the chapter-number token         *)
(*   Sp  a blank (white space that is no line break)                       *)
(*   Nl  the line break                                                    *)
(*   Xc  any other character                                               *)
(* Positions are Python's: 0-based, a slice [a:b] is SubSeq(s, a+1, b).    *)
(***************************************************************************)
EXTENDS Integers, Sequences, FiniteSets, TLC

VARIABLES
    pc,               \* position of the single control flow
    content,          \* the document text (empty until it is read)
    matches,          \* list(pattern.finditer(content)): [start, end] records
    chapters,         \* the chapter list built by split_into_chapters
    idx,              \* loop index i of split_into_chapters
    attempt,          \* loop variable of _call_model_api
    outcomes,         \* what each HTTP request of the current call ended in
    sleeps,           \* per request: whether time.sleep(retry_delay) followed it
    response,         \* what _call_model_api returned
    characters_list,  \* the argument of merge_character_data
    merged,           \* the dict merged, as its items in insertion order
    ci, cj,           \* positions of merge_character_data's two loops
    serviceOk,        \* check_service_available: "unchecked", "up" or "down"
    fileRead,         \* read_novel_file: "not_read", "failed" or "ok"
    all_characters,   \* process_novel's list of per-chapter record lists
    failed_chapters,  \* process_novel's count of failed chapters
    chap,             \* number of chapters process_novel has dealt with
    extracted,        \* per chapter: what extract_character_info returned
    requests,         \* HTTP requests sent to the model during the run
    report            \* the reports written to the output file

splitVars == <<matches, chapters, idx>>
callVars == <<attempt, outcomes, sleeps, response>>
mergeVars == <<characters_list, merged, ci, cj>>
procVars == <<serviceOk, fileRead, all_characters, failed_chapters, chap,
              extracted, requests, report>>

vars == <<pc, content, splitVars, callVars, mergeVars, procVars>>

None == "None"

Di == "Di"
Num == "1"
Zh == "Zh"
Sp == " "
Nl == "\n"
Xc == "x"

\* str.isspace for the characters of the alphabet; also the regex class \s
IsSpace(c) == c \in {Sp, Nl}

\* the regex class [0-9...] of chapter-number characters
IsNumeral(c) == c = Num

Last(q) == q[Len(q)]

\* Python's s[a:b] for 0 <= a, b <= len(s)
Slice(s, a, b) == SubSeq(s, a + 1, b)

RECURSIVE LStrip(_)
LStrip(s) ==
    IF s # <<>> /\ IsSpace(Head(s)) THEN LStrip(Tail(s)) ELSE s

RECURSIVE RStrip(_)
RStrip(s) ==
    IF s # <<>> /\ IsSpace(s[Len(s)]) THEN RStrip(SubSeq(s, 1, Len(s) - 1)) ELSE s

\* str.strip()
Strip(s) == RStrip(LStrip(s))

\* the number of characters from 0-based position p on that satisfy the
\* class: a greedy + or * of the regex engine
RECURSIVE RunOfNumerals(_, _)
RunOfNumerals(s, p) ==
    IF p < Len(s) /\ IsNumeral(s[p + 1]) THEN 1 + RunOfNumerals(s, p + 1) ELSE 0

RECURSIVE RunOfNonNewline(_, _)
RunOfNonNewline(s, p) ==
    IF p < Len(s) /\ s[p + 1] # Nl THEN 1 + RunOfNonNewline(s, p + 1) ELSE 0

\* pattern.match at 0-based position p: the 0-based end of the match, or -1.
\* The pattern is  (Di numerals+ Zh \s [^\n]+) \n ; backtracking never finds
\* a match the greedy runs miss, since a numeral is not Zh and the title run
\* stops only at a line break or at the end of the text.
MatchEnd(s, p) ==
    LET k == RunOfNumerals(s, p + 1)
        m == RunOfNonNewline(s, p + k + 3)
        e == p + k + 3 + m
    IN  IF /\ p < Len(s)
           /\ s[p + 1] = Di
           /\ k >= 1
           /\ p + k + 2 <= Len(s)
           /\ s[p + k + 2] = Zh
           /\ p + k + 3 <= Len(s)
           /\ IsSpace(s[p + k + 3])
           /\ m >= 1
           /\ e < Len(s)
           /\ s[e + 1] = Nl
        THEN e + 1
        ELSE -1

\* list(pattern.finditer(s)) from 0-based position p on: the leftmost match,
\* then the search resumes at its end
RECURSIVE FindIter(_, _)
FindIter(s, p) ==
    IF p >= Len(s) THEN <<>>
    ELSE IF MatchEnd(s, p) >= 0
         THEN <<[start |-> p, end |-> MatchEnd(s, p)]>> \o FindIter(s, MatchEnd(s, p))
         ELSE FindIter(s, p + 1)

\* match.group(1): the match without the line break that ends it
Group1(s, mt) == Slice(s, mt.start, mt.end - 1)

\* the title used when no heading is found (the two characters U+5168 U+6587)
Sentinel == <<"quanwen">>

SentinelChapter(s) == [title |-> Sentinel, content |-> s]

ChapterTitle(s, ms, i) == Strip(Group1(s, ms[i]))

ChapterEndPosToEnd(s, ms, i) == Len(s)

ChapterEndPos(s, ms, i) == IF i < Len(ms) THEN ms[i + 1].start ELSE Len(s)

ChapterContent(s, ms, i) == Strip(Slice(s, ms[i].end, ChapterEndPos(s, ms, i)))

(***************************************************************************)
(* split_into_chapters                                                     *)
(***************************************************************************)

\* lines 103-108: the matches are listed; without any, the whole text is
\* the one chapter
SplitFind ==
    /\ pc = "split"
    /\ matches' = FindIter(content, 0)
    /\ idx' = 0
    /\ IF matches' = <<>>
       THEN /\ chapters' = <<SentinelChapter(content)>>
            /\ pc' = "split_return"
       ELSE /\ chapters' = <<>>
            /\ pc' = "split_loop"
    /\ UNCHANGED <<content, callVars, mergeVars, procVars>>

\* lines 111-117: one pass of the loop over the matches
SplitStep ==
    /\ pc = "split_loop"
    /\ idx < Len(matches)
    /\ chapters' = Append(chapters,
                          [title |-> ChapterTitle(content, matches, idx + 1),
                           content |-> ChapterContent(content, matches, idx + 1)])
    /\ idx' = idx + 1
    /\ UNCHANGED <<pc, content, matches, callVars, mergeVars, procVars>>

\* line 123
SplitReturn ==
    /\ pc = "split_loop"
    /\ idx = Len(matches)
    /\ pc' = "split_return"
    /\ UNCHANGED <<content, splitVars, callVars, mergeVars, procVars>>

\* the documents split_into_chapters is given: at most MaxPieces pieces, each
\* a character, a chapter-number token or a whole heading line
MaxPieces == 5

Pieces ==
    {<<Xc>>, <<Sp>>, <<Nl>>, <<Di>>, <<Zh>>, <<Di, Num, Zh>>, <<Di, Num, Num, Zh>>,
     <<Di, Num, Zh, Sp, Xc, Nl>>}

RECURSIVE DocsUpTo(_)
DocsUpTo(n) ==
    IF n = 0 THEN {<<>>}
    ELSE LET prev == DocsUpTo(n - 1)
         IN  prev \cup {d \o p : d \in prev, p \in Pieces}

Docs == DocsUpTo(MaxPieces)

SplitIdle == matches = <<>> /\ chapters = <<>> /\ idx = 0
CallIdle == attempt = 0 /\ outcomes = <<>> /\ sleeps = <<>> /\ response = None
MergeIdle == characters_list = <<>> /\ merged = <<>> /\ ci = 0 /\ cj = 0
ProcIdle ==
    /\ serviceOk = "unchecked" /\ fileRead = "not_read" /\ all_characters = <<>>
    /\ failed_chapters = 0 /\ chap = 0 /\ extracted = <<>>
    /\ requests = 0 /\ report = <<>>

InitSplit ==
    /\ pc = "split"
    /\ content \in Docs
    /\ SplitIdle /\ CallIdle /\ MergeIdle /\ ProcIdle

NextSplit == SplitFind \/ SplitStep \/ SplitReturn

SpecSplit == InitSplit /\ [][NextSplit]_vars

(***************************************************************************)
(* _call_model_api                                                         *)
(***************************************************************************)

max_retries == 3

Data == "data"

\* What one pass of the loop body can end in:
\*   ok       status 200 and a dict with message.content      (line 174)
\*   non200   another status                                   (line 159)
\*   badjson  response.json() raises json.JSONDecodeError      (line 175)
\*   nondict  the body is JSON but no dict                     (line 166)
\*   missing  the dict lacks message or message.content        (line 170)
\*   timeout  requests.post raises Timeout                     (line 179)
\*   error    any other exception                              (line 184)
Outcomes == {"ok", "non200", "badjson", "nondict", "missing", "timeout", "error"}

RetriedOnlyTimeout(o) == o = "timeout"

\* the outcomes whose branch ends in continue
Retried(o) == o \in {"non200", "badjson", "nondict", "missing", "timeout"}

MoreAttemptsOffByOne(a) == a <= max_retries

\* for attempt in range(self.max_retries)
MoreAttempts(a) == a < max_retries

\* line 181: whether the retry delay is slept after a timeout at this attempt
SleepsAfterTimeout(a) == a < max_retries - 1

\* lines 139-186: one pass of the loop, the request and what follows it
CallAttempt ==
    /\ pc = "api_loop"
    /\ MoreAttempts(attempt)
    /\ \E o \in Outcomes :
          /\ outcomes' = Append(outcomes, o)
          /\ sleeps' = Append(sleeps, o = "timeout" /\ SleepsAfterTimeout(attempt))
          /\ IF Retried(o)
             THEN /\ attempt' = attempt + 1
                  /\ response' = response
                  /\ pc' = "api_loop"
             ELSE /\ attempt' = attempt
                  /\ response' = IF o = "ok" THEN Data ELSE None
                  /\ pc' = "api_return"
    /\ requests' = requests + 1
    /\ UNCHANGED <<content, splitVars, mergeVars, serviceOk, fileRead,
                   all_characters, failed_chapters, chap, extracted, report>>

\* line 188: the loop ran out
CallExhausted ==
    /\ pc = "api_loop"
    /\ ~MoreAttempts(attempt)
    /\ response' = None
    /\ pc' = "api_return"
    /\ UNCHANGED <<content, splitVars, attempt, outcomes, sleeps, mergeVars, procVars>>

InitCall ==
    /\ pc = "api_loop"
    /\ content = <<>>
    /\ SplitIdle /\ CallIdle /\ MergeIdle /\ ProcIdle

NextCall == CallAttempt \/ CallExhausted

SpecCall == InitCall /\ [][NextCall]_vars

\* the call runs on: a request returns or times out after request_timeout
\* (line 151) and the delay (line 182) is finite, so a pass that can be taken
\* is taken
SpecCallFair == SpecCall /\ WF_vars(NextCall)

(***************************************************************************)
(* merge_character_data                                                    *)
(*                                                                         *)
(* A raw record is a function from the keys it carries to their values; a  *)
(* dict is the sequence of its items in insertion order.                   *)
(***************************************************************************)

\* d.get(k, default)
Get(d, k, default) == IF k \in DOMAIN d THEN d[k] ELSE default

\* the position of the item of dict m with the key, 0 when there is none
RECURSIVE IndexOf(_, _)
IndexOf(m, key) ==
    IF m = <<>> THEN 0
    ELSE IF Last(m).key = key THEN Len(m)
         ELSE IndexOf(SubSeq(m, 1, Len(m) - 1), key)

NameIsNone(name) == name = None

\* line 251: not name
NameIsFalsy(name) == name \in {None, ""}

\* line 265
Fields == {"appearance", "personality", "relationships", "significance"}

SeedRawWins(char) ==
    [k \in DOMAIN char \cup {"appearances", "chapters"} |->
        IF k \in DOMAIN char THEN char[k]
        ELSE IF k = "appearances" THEN 1
        ELSE <<Get(char, "first_appearance", "")>>]

\* lines 255-259: the record a first occurrence seeds
Seed(char) ==
    [k \in DOMAIN char \cup {"appearances", "chapters"} |->
        IF k = "appearances" THEN 1
        ELSE IF k = "chapters" THEN <<Get(char, "first_appearance", "")>>
        ELSE char[k]]

ReplacesAtLeastAsLong(rec, char, f) ==
    /\ f \in DOMAIN char
    /\ char[f] # ""
    /\ (f \notin DOMAIN rec \/ Len(char[f]) >= Len(Get(rec, f, "")))

\* lines 266-269: whether the later record's value replaces the stored one
Replaces(rec, char, f) ==
    /\ f \in DOMAIN char
    /\ char[f] # ""
    /\ (f \notin DOMAIN rec \/ Len(char[f]) > Len(Get(rec, f, "")))

\* lines 261-270: the stored record after a further occurrence
Update(rec, char) ==
    [k \in DOMAIN rec \cup {f \in Fields : Replaces(rec, char, f)} |->
        IF k = "appearances" THEN rec[k] + 1
        ELSE IF k = "chapters" THEN Append(rec[k], Get(char, "first_appearance", ""))
        ELSE IF k \in Fields /\ Replaces(rec, char, k) THEN char[k]
        ELSE rec[k]]

\* the record the loops are at
CurrentChar == characters_list[ci + 1][cj + 1]

AtRecord ==
    /\ pc = "merge_loop"
    /\ ci < Len(characters_list)
    /\ cj < Len(characters_list[ci + 1])

\* lines 250-252: a record without a name is passed over
MergeSkip ==
    /\ AtRecord
    /\ NameIsFalsy(Get(CurrentChar, "name", None))
    /\ cj' = cj + 1
    /\ UNCHANGED <<pc, content, splitVars, callVars, characters_list, merged, ci,
                   procVars>>

\* lines 254-259: the first record of a name
MergeSeed ==
    /\ AtRecord
    /\ LET name == Get(CurrentChar, "name", None)
       IN  /\ ~NameIsFalsy(name)
           /\ IndexOf(merged, name) = 0
           /\ merged' = Append(merged, [key |-> name, val |-> Seed(CurrentChar)])
    /\ cj' = cj + 1
    /\ UNCHANGED <<pc, content, splitVars, callVars, characters_list, ci, procVars>>

\* lines 260-270: a further record of a name
MergeUpdate ==
    /\ AtRecord
    /\ LET name == Get(CurrentChar, "name", None)
           at == IndexOf(merged, name)
       IN  /\ ~NameIsFalsy(name)
           /\ at # 0
           /\ merged' = [merged EXCEPT ![at].val = Update(@, CurrentChar)]
    /\ cj' = cj + 1
    /\ UNCHANGED <<pc, content, splitVars, callVars, characters_list, ci, procVars>>

\* line 248: the next chapter's list
MergeNextList ==
    /\ pc = "merge_loop"
    /\ ci < Len(characters_list)
    /\ cj = Len(characters_list[ci + 1])
    /\ ci' = ci + 1
    /\ cj' = 0
    /\ UNCHANGED <<pc, content, splitVars, callVars, characters_list, merged, procVars>>

\* line 272
MergeReturn ==
    /\ pc = "merge_loop"
    /\ ci = Len(characters_list)
    /\ pc' = "merge_return"
    /\ UNCHANGED <<content, splitVars, callVars, mergeVars, procVars>>

\* raw records as the model service reports them
RecA1 == [name |-> "A", appearance |-> "aa", personality |-> "p", first_appearance |-> "c1"]
RecA2 == [name |-> "A", appearance |-> "a", personality |-> "q", first_appearance |-> "c2"]
RecA3 == [name |-> "A", personality |-> "pp", relationships |-> "r"]
RecA4 == [name |-> "A", appearance |-> "", personality |-> "", first_appearance |-> "", significance |-> "s"]
RecA5 == [name |-> "A", first_appearance |-> "c1", significance |-> "t", appearances |-> 7, chapters |-> <<"zz">>]
RecB == [name |-> "B", personality |-> "p", first_appearance |-> "c2"]
RecEmptyName == [name |-> "", personality |-> "pp", first_appearance |-> "c1"]
RecNoName == [personality |-> "q"]

RecordPool == {RecA1, RecA2, RecA3, RecA4, RecA5, RecB, RecEmptyName, RecNoName}

\* the arguments of merge_character_data: lists of lists built in at most
\* MaxRecs steps, each opening a list (with or without a first record) or
\* adding a record to the last list
MaxRecs == 3

RECURSIVE ListsUpTo(_)
ListsUpTo(n) ==
    IF n = 0 THEN {<<>>}
    ELSE LET prev == ListsUpTo(n - 1)
         IN  prev
             \cup {Append(c, <<>>) : c \in prev}
             \cup {Append(c, <<r>>) : c \in prev, r \in RecordPool}
             \cup {[c EXCEPT ![Len(c)] = Append(@, r)] :
                       c \in prev \ {<<>>}, r \in RecordPool}

InitMerge ==
    /\ pc = "merge_loop"
    /\ content = <<>>
    /\ characters_list \in ListsUpTo(MaxRecs)
    /\ merged = <<>> /\ ci = 0 /\ cj = 0
    /\ SplitIdle /\ CallIdle /\ ProcIdle

NextMerge == MergeSkip \/ MergeSeed \/ MergeUpdate \/ MergeNextList \/ MergeReturn

SpecMerge == InitMerge /\ [][NextMerge]_vars

(***************************************************************************)
(* process_novel                                                           *)
(***************************************************************************)

AfterServiceCheckNoReturn(up) == "read_file"

\* lines 334-336: the run goes on only when the service answers
AfterServiceCheck(up) == IF up THEN "read_file" ELSE "done"

\* lines 310-323 and 334-336
ProcCheckService ==
    /\ pc = "check_service"
    /\ \E up \in BOOLEAN :
          /\ serviceOk' = IF up THEN "up" ELSE "down"
          /\ pc' = AfterServiceCheck(up)
    /\ UNCHANGED <<content, splitVars, callVars, mergeVars, fileRead, all_characters,
                   failed_chapters, chap, extracted, requests, report>>

\* the texts the input file holds: at most MaxProcPieces pieces, each a
\* character or a heading line
MaxProcPieces == 2

ProcPieces == {<<Xc>>, <<Di, Num, Zh, Sp, Xc, Nl>>}

RECURSIVE ProcDocsUpTo(_)
ProcDocsUpTo(n) ==
    IF n = 0 THEN {<<>>}
    ELSE LET prev == ProcDocsUpTo(n - 1)
         IN  prev \cup {d \o p : d \in prev, p \in ProcPieces}

\* lines 72-89 and 340-342: the file is read; the run ends when that fails
\* or the text is empty
ProcReadFile ==
    /\ pc = "read_file"
    /\ \/ /\ fileRead' = "failed"
          /\ content' = content
          /\ pc' = "done"
       \/ \E text \in ProcDocsUpTo(MaxProcPieces) :
             /\ fileRead' = "ok"
             /\ content' = text
             /\ pc' = IF text = <<>> THEN "done" ELSE "split"
    /\ UNCHANGED <<splitVars, callVars, mergeVars, serviceOk, all_characters,
                   failed_chapters, chap, extracted, requests, report>>

\* lines 346-353: split_into_chapters has returned (for a text it raises
\* nothing, so its list is never empty)
ProcAfterSplit ==
    /\ pc = "split_return"
    /\ pc' = IF chapters = <<>> THEN "done" ELSE "chapter_loop"
    /\ UNCHANGED <<content, splitVars, callVars, mergeVars, procVars>>

\* lines 355-357 and 222: the next chapter is sent to the model
ProcChapterStart ==
    /\ pc = "chapter_loop"
    /\ chap < Len(chapters)
    /\ attempt' = 0
    /\ outcomes' = <<>>
    /\ sleeps' = <<>>
    /\ response' = None
    /\ pc' = "api_loop"
    /\ UNCHANGED <<content, splitVars, mergeVars, procVars>>

\* what extract_character_info returns: None, or the list under "characters"
NoCharacters == [ok |-> FALSE, chars |-> <<>>]

ExtractLists == {<<>>, <<RecA1>>, <<RecNoName, RecA2>>}

\* lines 223-234: None when the call failed, when the message is no JSON, no
\* dict or has no "characters"; else the list it holds
ExtractReturns(resp) ==
    IF resp = None THEN {NoCharacters}
    ELSE {NoCharacters} \cup {[ok |-> TRUE, chars |-> l] : l \in ExtractLists}

\* line 359: if characters
Truthy(characters) == characters.ok /\ characters.chars # <<>>

\* lines 357-363: the chapter's records are kept, or the chapter is counted
\* as failed
ProcChapterDone ==
    /\ pc = "api_return"
    /\ \E characters \in ExtractReturns(response) :
          /\ extracted' = Append(extracted, characters)
          /\ IF Truthy(characters)
             THEN /\ all_characters' = Append(all_characters, characters.chars)
                  /\ failed_chapters' = failed_chapters
             ELSE /\ all_characters' = all_characters
                  /\ failed_chapters' = failed_chapters + 1
    /\ chap' = chap + 1
    /\ pc' = "chapter_loop"
    /\ UNCHANGED <<content, splitVars, callVars, mergeVars, serviceOk, fileRead,
                   requests, report>>

\* lines 367 and 246: the merge is called with the lists kept
ProcMergeStart ==
    /\ pc = "chapter_loop"
    /\ chap = Len(chapters)
    /\ characters_list' = all_characters
    /\ merged' = <<>>
    /\ ci' = 0
    /\ cj' = 0
    /\ pc' = "merge_loop"
    /\ UNCHANGED <<content, splitVars, callVars, procVars>>

\* lines 286-308: the statistics block and the merged records
Report ==
    [total |-> Len(chapters),
     succeeded |-> Len(chapters) - failed_chapters,
     failed |-> failed_chapters,
     found |-> Len(merged),
     sections |-> merged]

\* lines 370-376: the report is written, unless the write fails
ProcWriteReport ==
    /\ pc = "merge_return"
    /\ \E written \in BOOLEAN :
          report' = IF written THEN <<Report>> ELSE report
    /\ pc' = "done"
    /\ UNCHANGED <<content, splitVars, callVars, mergeVars, serviceOk, fileRead,
                   all_characters, failed_chapters, chap, extracted, requests>>

Init ==
    /\ pc = "check_service"
    /\ content = <<>>
    /\ SplitIdle /\ CallIdle /\ MergeIdle /\ ProcIdle

Next ==
    \/ ProcCheckService
    \/ ProcReadFile
    \/ SplitFind
    \/ SplitStep
    \/ SplitReturn
    \/ ProcAfterSplit
    \/ ProcChapterStart
    \/ CallAttempt
    \/ CallExhausted
    \/ ProcChapterDone
    \/ ProcMergeStart
    \/ MergeSkip
    \/ MergeSeed
    \/ MergeUpdate
    \/ MergeNextList
    \/ MergeReturn
    \/ ProcWriteReport

Spec == Init /\ [][Next]_vars

(***************************************************************************)
(* The claims about split_into_chapters, under SpecSplit                   *)
(***************************************************************************)

\* the text s[p:e] is a heading followed by its line break: what the pattern
\* describes, stated without the search
HeadingAt(s, p, e) ==
    /\ 0 <= p /\ p < e /\ e <= Len(s)
    /\ s[p + 1] = Di
    /\ s[e] = Nl
    /\ \E k \in 1..(e - p - 5) :
          /\ \A j \in 1..k : IsNumeral(s[p + 1 + j])
          /\ s[p + k + 2] = Zh
          /\ IsSpace(s[p + k + 3])
          /\ \A j \in (p + k + 4)..(e - 1) : s[j] # Nl

HeadingStarts(s, p) == \E e \in (p + 6)..Len(s) : HeadingAt(s, p, e)

NoHeading(s) == \A p \in 0..Len(s) : ~HeadingStarts(s, p)

\* ms lists the non-overlapping headings of s from left to right, none left out
IsMatchList(s, ms) ==
    /\ \A i \in 1..Len(ms) : HeadingAt(s, ms[i].start, ms[i].end)
    /\ \A i \in 1..Len(ms) - 1 : ms[i].end <= ms[i + 1].start
    /\ \A p \in 0..Len(s) :
           HeadingStarts(s, p) =>
               \E i \in 1..Len(ms) : ms[i].start <= p /\ p < ms[i].end

\* C2: a document without a heading yields the one chapter titled with the
\* sentinel whose content is the whole text, trimmed
C2_SentinelContentTrimmed ==
    (pc = "split_return" /\ NoHeading(content)) =>
        chapters = <<[title |-> Sentinel, content |-> Strip(content)]>>

\* C6: a document with n >= 1 headings yields n chapters in source order;
\* chapter i has the text of heading i (its line break dropped, trimmed) as
\* title and the trimmed text between heading i and heading i+1, or the end
\* of the document, as content
C6_ChaptersFollowMatches ==
    (pc = "split_return" /\ ~NoHeading(content)) =>
        /\ IsMatchList(content, matches)
        /\ Len(chapters) = Len(matches)
        /\ \A i \in 1..Len(matches) :
              /\ chapters[i].title =
                     Strip(SubSeq(content, matches[i].start + 1, matches[i].end - 1))
              /\ chapters[i].content =
                     Strip(SubSeq(content, matches[i].end + 1,
                                  IF i < Len(matches) THEN matches[i + 1].start
                                  ELSE Len(content)))

\* two chapters, the first with content that had white space to trim and
\* that holds the opening of a heading that is none
C6_Witness ==
    /\ pc = "split_return"
    /\ Len(chapters) = 2
    /\ chapters[1].content = <<Di, Xc>>
    /\ matches[2].start - matches[1].end > 2

\* the 0-based position p is preceded on its line by a character that is no
\* white space
MidLine(s, p) ==
    \E q \in 1..p : ~IsSpace(s[q]) /\ \A r \in q..p : s[r] # Nl

\* C7: heading-shaped text that follows other body text on its line starts
\* no chapter
C7_MidLineHeadingAbsorbed ==
    pc = "split_return" =>
        \A i \in 1..Len(matches) : ~MidLine(content, matches[i].start)

(***************************************************************************)
(* The claims about _call_model_api, under SpecCall                        *)
(***************************************************************************)

\* C1 as stated: a request follows only a request that timed out, and the
\* call fails right after any other failure
C1_RetryOnlyAfterTimeout ==
    /\ \A k \in 1..Len(outcomes) - 1 : outcomes[k] = "timeout"
    /\ (pc = "api_return" /\ outcomes # <<>> /\ Last(outcomes) \notin {"ok", "timeout"})
          => response = None

\* C1 amended: a request follows only a request that timed out or got a
\* non-200 status, a malformed, a non-dict or an incomplete body, and such a
\* request is followed by another one while attempts remain; the retry delay
\* is slept only after a timeout; after any other exception the call fails
\* without a further request
C1_RetryAfterFailedReply ==
    /\ \A k \in 1..Len(outcomes) - 1 :
          outcomes[k] \in {"timeout", "non200", "badjson", "nondict", "missing"}
    /\ \A k \in 1..Len(sleeps) : sleeps[k] => outcomes[k] = "timeout"
    /\ (pc = "api_return" /\ Len(outcomes) < max_retries) =>
          /\ outcomes # <<>>
          /\ Last(outcomes) \in {"ok", "error"}
    /\ (pc = "api_return" /\ outcomes # <<>> /\ Last(outcomes) = "error") =>
          response = None

\* a non-200 reply is followed, without delay, by a request that succeeds
C1_Witness ==
    /\ pc = "api_return"
    /\ outcomes = <<"non200", "ok">>
    /\ sleeps = <<FALSE, FALSE>>
    /\ response = Data

CallInvariant ==
    /\ Len(outcomes) <= max_retries
    /\ Len(sleeps) = Len(outcomes)
    /\ pc = "api_loop" => attempt = Len(outcomes)
    /\ \A k \in 1..Len(outcomes) - 1 : outcomes[k] \notin {"ok", "error"}
    /\ \A k \in 1..Len(outcomes) :
          sleeps[k] <=> (outcomes[k] = "timeout" /\ k < max_retries)
    /\ pc = "api_return" =>
          /\ outcomes # <<>>
          /\ response = Data <=> Last(outcomes) = "ok"
          /\ response = None <=>
                \/ Last(outcomes) = "error"
                \/ Len(outcomes) = max_retries /\ Last(outcomes) \notin {"ok", "error"}
          /\ response \in {Data, None}

\* C9: a call returns, after at most max_retries requests, none of them
\* sent after a well-formed reply or a non-timeout exception; it returns the
\* data exactly when its last request got a well-formed reply and failure
\* otherwise; it sleeps the retry delay exactly after a timeout that is not
\* the last attempt
C9_CallBounded == []CallInvariant /\ <>(pc = "api_return")

\* three timeouts: two delays, then failure
C9_Witness ==
    /\ pc = "api_return"
    /\ outcomes = <<"timeout", "timeout", "timeout">>
    /\ sleeps = <<TRUE, TRUE, FALSE>>
    /\ response = None

(***************************************************************************)
(* The claims about merge_character_data, under SpecMerge                  *)
(***************************************************************************)

RECURSIVE Flatten(_)
Flatten(ls) == IF ls = <<>> THEN <<>> ELSE Head(ls) \o Flatten(Tail(ls))

\* the raw records the loops have gone through, in order
Processed ==
    Flatten(SubSeq(characters_list, 1, ci))
        \o (IF ci < Len(characters_list)
            THEN SubSeq(characters_list[ci + 1], 1, cj)
            ELSE <<>>)

NameOf(r) == Get(r, "name", None)

\* the processed records that carry the name, in order
Occurrences(name) == SelectSeq(Processed, LAMBDA r : NameOf(r) = name)

\* the position in Processed of the first record with the name
FirstSeen(name) ==
    CHOOSE k \in 1..Len(Processed) :
        /\ NameOf(Processed[k]) = name
        /\ \A j \in 1..(k - 1) : NameOf(Processed[j]) # name

\* the length of field f of a raw record, a missing field counting as empty
FieldLen(r, f) == Len(Get(r, f, ""))

\* the position in occ of the first record whose field f is longest
EarliestLongest(occ, f) ==
    CHOOSE k \in 1..Len(occ) :
        /\ \A j \in 1..Len(occ) : FieldLen(occ[j], f) <= FieldLen(occ[k], f)
        /\ \A j \in 1..(k - 1) : FieldLen(occ[j], f) < FieldLen(occ[k], f)

\* C4: for every name and descriptive field the stored value is that of the
\* earliest occurrence among those of greatest length (a missing value
\* counting as an empty one): a longer value wins wherever it occurs, a later
\* value of the same length never replaces the earlier one
C4_StoredIsEarliestLongest ==
    \A i \in 1..Len(merged) : \A f \in Fields :
        LET occ == Occurrences(merged[i].key)
            rec == merged[i].val
        IN  /\ occ # <<>>
            /\ LET best == occ[EarliestLongest(occ, f)]
               IN  /\ f \in DOMAIN rec <=> f \in DOMAIN best
                   /\ f \in DOMAIN rec => rec[f] = best[f]

\* three records of one name: the longer later personality has replaced the
\* first, the equally long second one has not, the longer earlier appearance
\* has stayed
C4_Witness ==
    /\ pc = "merge_return"
    /\ Len(merged) = 1
    /\ Len(Processed) = 3
    /\ Processed[1].personality = "p"
    /\ Processed[2].personality = "q"
    /\ merged[1].val.personality = "pp"
    /\ merged[1].val.appearance = "aa"

\* C8: the keys are the distinct non-empty names of the records gone through,
\* each once, in the order in which the names were first seen
C8_KeysAreFirstSeenNames ==
    /\ \A i, j \in 1..Len(merged) : i # j => merged[i].key # merged[j].key
    /\ {merged[i].key : i \in 1..Len(merged)} =
          {NameOf(Processed[k]) : k \in 1..Len(Processed)} \ {None, ""}
    /\ \A i, j \in 1..Len(merged) :
          i < j => FirstSeen(merged[i].key) < FirstSeen(merged[j].key)

\* B, A, B: two entries, B before A
C8_Witness ==
    /\ pc = "merge_return"
    /\ Len(Processed) = 3
    /\ NameOf(Processed[1]) = "B"
    /\ NameOf(Processed[2]) = "A"
    /\ NameOf(Processed[3]) = "B"
    /\ Len(merged) = 2
    /\ merged[1].key = "B"
    /\ merged[2].key = "A"

\* C10: at every step each merged record's appearances is the length of its
\* chapters and the number of records gone through that carry its name, and
\* chapters holds their first_appearance values in order, the empty string
\* for a record without one
C10_AppearancesCountOccurrences ==
    \A i \in 1..Len(merged) :
        LET occ == Occurrences(merged[i].key)
            rec == merged[i].val
        IN  /\ rec.appearances = Len(occ)
            /\ Len(rec.chapters) = Len(occ)
            /\ \A k \in 1..Len(occ) :
                  rec.chapters[k] = Get(occ[k], "first_appearance", "")

\* a name whose first record carries keys appearances and chapters of its
\* own, and whose second record has no first_appearance
C10_Witness ==
    /\ Len(merged) = 1
    /\ Len(Processed) = 2
    /\ "appearances" \in DOMAIN Processed[1]
    /\ "chapters" \in DOMAIN Processed[1]
    /\ "first_appearance" \notin DOMAIN Processed[2]
    /\ merged[1].val.appearances = 2
    /\ merged[1].val.chapters = <<"c1", "">>

(***************************************************************************)
(* The claims about process_novel, under Spec                              *)
(***************************************************************************)

\* the chapters dealt with whose extraction succeeded, in order
Succeeded == SelectSeq(extracted, LAMBDA e : e.ok)

\* C3: the failed chapters are exactly those whose extraction failed; each
\* chapter whose extraction succeeded, also with no character in it,
\* contributes its list, in chapter order
C3_FailedIffExtractionFailed ==
    /\ failed_chapters = Len(extracted) - Len(Succeeded)
    /\ Len(all_characters) = Len(Succeeded)
    /\ \A k \in 1..Len(Succeeded) :
          k <= Len(all_characters) /\ all_characters[k] = Succeeded[k].chars

\* C5: when the service check fails or the file cannot be read the run is
\* over: nothing is split, no request is sent, nothing is merged and no
\* report is written; when the service check fails the file is not read
C5_AbortsBeforeWork ==
    (serviceOk = "down" \/ fileRead = "failed") =>
        /\ pc = "done"
        /\ content = <<>>
        /\ SplitIdle
        /\ CallIdle
        /\ MergeIdle
        /\ requests = 0
        /\ extracted = <<>>
        /\ report = <<>>
        /\ serviceOk = "down" => fileRead = "not_read"

\* the service answered and the read failed
C5_Witness ==
    /\ pc = "done"
    /\ serviceOk = "up"
    /\ fileRead = "failed"

=============================================================================
